---------------------------- MODULE Spec2Model ----------------------------
(***************************************************************************)
(* A model of zebra.py: the three generators that decode a ZEBRA file.     *)
(*                                                                         *)
(*   zebraio               physical records  (steering block + payload)    *)
(*   iter_logical_records  logical records   (control word + pilot + body) *)
(*   iter_banks            banks             (IOControl + Bank + data)     *)
(*   parse                 iter_banks over iter_logical_records            *)
(*                                                                         *)
(* Files, buffers and records are sequences of bytes (0..255).  The        *)
(* ctypes structures are decoded field by field from big-endian bytes.     *)
(* The source is Python 2 (from __future__ import print_function, and a    *)
(* bytearray compared with a str literal at line 83): a bytearray equals   *)
(* a str exactly when their bytes are equal.                               *)
(***************************************************************************)
EXTENDS Integers, Sequences, FiniteSets, TLC

VARIABLES
    input,      \* the description the file was built from (read by the properties only)
    f,          \* the bytes of the file
    zpos,       \* f.tell(): the cursor of the file
    zskip,      \* zebraio's local `skip`
    zstate,     \* zebraio: "created", "suspended", "done" or "failed"
    zout,       \* the chunks zebraio has yielded to a direct caller, in order
    zreq,       \* for each resume of zebraio by a direct caller, the value sent
    buf,        \* iter_logical_records' local `buf`
    lstate,     \* iter_logical_records: "idle", "running", "done" or "failed"
    lout,       \* the logical records iter_logical_records has yielded, in order
    lpos,       \* the number of bytes taken off the head of buf so far
    npulled,    \* the number of bytes iter_logical_records has pulled from zebraio
    ev,         \* what the last iteration of iter_logical_records did
    record,     \* iter_banks' argument
    bpos,       \* bytes.tell(): the cursor of iter_banks' BytesIO
    bstate,     \* iter_banks: "idle", "running", "done" or "failed"
    bout,       \* the (bank, data) pairs yielded, in order
    err,        \* the exception that ended the run, or "none"
    first       \* the outcome of the first decode of f, once f is decoded again

vars == <<input, f, zpos, zskip, zstate, zout, zreq, buf, lstate, lout, lpos,
          npulled, ev, record, bpos, bstate, bout, err, first>>

lvars == <<buf, lstate, lout, lpos, npulled, ev>>
bvars == <<record, bpos, bstate, bout>>

(***************************************************************************)
(* Bounds of the model.                                                    *)
(***************************************************************************)
MaxRecs  == 3    \* physical records in a file given to zebraio directly
MaxItems == 2    \* logical items in a file given to iter_logical_records
MaxBanks == 2    \* banks in a logical record given to iter_banks
MaxOut   == 6    \* (bank, data) pairs a run may yield before the model stops pulling

(***************************************************************************)
(* Bytes, Python slices and big-endian words.                              *)
(***************************************************************************)
Min(a, b) == IF a < b THEN a ELSE b
Max(a, b) == IF a > b THEN a ELSE b

\* Python's index clamping for a slice bound i on a sequence of length n.
PyIndex(i, n) == IF i < 0 THEN Max(n + i, 0) ELSE Min(i, n)

\* s[a:b]
PySlice(s, a, b) ==
    LET lo == PyIndex(a, Len(s))
        hi == PyIndex(b, Len(s))
    IN  IF hi <= lo THEN <<>> ELSE SubSeq(s, lo + 1, hi)

\* s[a:]
PySliceFrom(s, a) == PySlice(s, a, Len(s))

\* The c_uint32 at byte offset off of a BigEndianStructure (the files of the
\* model keep every word below 2^31).
U32(b, off) ==
    b[off + 1] * 16777216 + b[off + 2] * 65536 + b[off + 3] * 256 + b[off + 4]

\* The four big-endian bytes of the c_uint32 n.
Enc32(n) ==
    << (n \div 16777216) % 256, (n \div 65536) % 256, (n \div 256) % 256, n % 256 >>

\* The concatenation of the first k sequences of ss, and of all of them.
RECURSIVE ConcatTo(_, _)
ConcatTo(ss, k) == IF k = 0 THEN <<>> ELSE ConcatTo(ss, k - 1) \o ss[k]

Concat(ss) == ConcatTo(ss, Len(ss))

\* The sum of the first k numbers of ns, and of all of them.
RECURSIVE SumTo(_, _)
SumTo(ns, k) == IF k = 0 THEN 0 ELSE SumTo(ns, k - 1) + ns[k]

SumSeq(ns) == SumTo(ns, Len(ns))

\* f.read(n) at cursor pos: at most n bytes, all the rest when n is negative.
FRead(file, pos, n) ==
    IF n < 0 THEN SubSeq(file, Min(pos, Len(file)) + 1, Len(file))
    ELSE SubSeq(file, Min(pos, Len(file)) + 1, Min(pos + n, Len(file)))

(***************************************************************************)
(* The structures.                                                         *)
(***************************************************************************)
SteeringBlockBytes == 32
ControlBytes       == 8
PilotBytes         == 40
BankBytes          == 36
IOControlBytes     == 4

\* SteeringBlock.from_buffer_copy(h), h of 32 bytes.  The fifth word packs
\* emergency_stop(1) end_of_run(1) start_of_run(1) padding(5) size(24),
\* most significant bit first: the flags are in its first byte, size is its
\* last three bytes.
SizeOfFlagsWord(h) == h[18] * 65536 + h[19] * 256 + h[20]

SteeringBlock(h) ==
    [ emergency_stop_block |-> (h[17] \div 128) % 2,
      end_of_run           |-> (h[17] \div 64) % 2,
      start_of_run         |-> (h[17] \div 32) % 2,
      size                 |-> SizeOfFlagsWord(h),
      count                |-> U32(h, 20),
      skip                 |-> U32(h, 24),
      fast_blocks          |-> U32(h, 28) ]

\* Control.from_buffer(b), b of 8 bytes.
Control(b) == [ size |-> U32(b, 0), type |-> U32(b, 4) ]

\* Pilot.from_buffer(b), b of 40 bytes (check is not read by the decoder).
Pilot(b) ==
    [ version     |-> U32(b, 4),
      process     |-> U32(b, 8),
      reserve     |-> U32(b, 12),
      size_text   |-> U32(b, 16),
      size_seg    |-> U32(b, 20),
      size_rel    |-> U32(b, 24),
      size_bank   |-> U32(b, 28),
      entry_link  |-> U32(b, 32),
      size_header |-> U32(b, 36) ]

\* Bank.from_buffer_copy(b), b of 36 bytes.
Bank(b) ==
    [ next   |-> U32(b, 0),
      up     |-> U32(b, 4),
      origin |-> U32(b, 8),
      id     |-> U32(b, 12),
      name   |-> SubSeq(b, 17, 20),
      links  |-> U32(b, 20),
      slinks |-> U32(b, 24),
      data   |-> U32(b, 28),
      status |-> U32(b, 32) ]

\* IOControl.from_buffer_copy(b), b of 4 bytes: char(16) size(16).
IOControl(b) == [ char |-> U32(b, 0) \div 65536, size |-> U32(b, 0) % 65536 ]

(***************************************************************************)
(* zebraio: one resume of the generator, up to its next yield, its end or  *)
(* its exception.                                                          *)
(***************************************************************************)
\* size = (sb.size*(sb.fast_blocks + 1)-8)*4
PhysicalSizeNoFast(sb) == (sb.size - 8) * 4
PhysicalSize(sb) == (sb.size * (sb.fast_blocks + 1) - 8) * 4

\* skip_to = sb.skip - 8 ; physical_record[skip_to*4:]
SkipTailWords(physical_record, sb) == PySliceFrom(physical_record, sb.skip - 8)
SkipTail(physical_record, sb) == PySliceFrom(physical_record, (sb.skip - 8) * 4)

\* what zebraio yields for a physical record, given its local `skip`
Yielded(physical_record, sb, skip) ==
    IF skip THEN SkipTail(physical_record, sb) ELSE physical_record

\* skip = yield ... : the value the resume carries (None for next()) becomes `skip`
SentSticky(old, sent) == old \/ sent
Sent(old, sent) == sent

zebraio(file, pos, skip) ==
    IF FRead(file, pos, 1) = <<>>
    THEN [ status |-> "stop", pos |-> pos, chunk |-> <<>>, err |-> "none" ]
    ELSE LET hdr == FRead(file, pos, SteeringBlockBytes) IN
         IF Len(hdr) < SteeringBlockBytes
         THEN [ status |-> "error", pos |-> pos + Len(hdr), chunk |-> <<>>,
                err |-> "ValueError: Buffer size too small" ]
         ELSE LET sb   == SteeringBlock(hdr)
                  size == PhysicalSize(sb)
                  physical_record == FRead(file, pos + SteeringBlockBytes, size)
                  after == pos + SteeringBlockBytes + Len(physical_record)
              IN  IF Len(physical_record) # size
                  THEN [ status |-> "error", pos |-> after, chunk |-> <<>>,
                         err |-> "AssertionError" ]
                  ELSE [ status |-> "yield", pos |-> after,
                         chunk |-> Yielded(physical_record, sb, skip),
                         err |-> "none" ]


(***************************************************************************)
(* Files.  A physical record is written as its steering block followed by  *)
(* its payload; the descriptor d gives the steering block's fields.        *)
(***************************************************************************)
Stamp == << 1, 35, 205, 239, 128, 112, 128, 112, 67, 33, 171, 205, 128, 97, 128, 97 >>

\* The 32 bytes of a steering block: stamp, flags(8) and size(24), count,
\* skip, fast_blocks.
SteerBytes(d) ==
    Stamp \o << d.flags >> \o SubSeq(Enc32(d.size), 2, 4)
          \o Enc32(0) \o Enc32(d.skip) \o Enc32(d.fast_blocks)

\* The payload length, in bytes, that the steering block d announces.
PayloadLen(d) == Max((d.size * (d.fast_blocks + 1) - 8) * 4, 0)

\* The payload of the i-th physical record of a file given to zebraio directly.
PayloadOf(i, d) == [ j \in 1..PayloadLen(d) |-> 16 * i + j ]

PhysKinds ==
    { [ size |-> 10, fast_blocks |-> 0, flags |-> 32, skip |-> 9 ],
      [ size |-> 5,  fast_blocks |-> 1, flags |-> 0,  skip |-> 8 ],
      [ size |-> 9,  fast_blocks |-> 0, flags |-> 0,  skip |-> 11 ],
      [ size |-> 10, fast_blocks |-> 0, flags |-> 0,  skip |-> 7 ],
      [ size |-> 8,  fast_blocks |-> 0, flags |-> 0,  skip |-> 8 ],
      [ size |-> 7,  fast_blocks |-> 0, flags |-> 0,  skip |-> 8 ] }

Tails == { "whole", "cut", "junk" }

\* The file: the records in order; "cut" loses its last two bytes, "junk" is
\* followed by eight bytes that are no steering block.
FramerFile(recs, tail) ==
    LET whole == Concat([ i \in 1..Len(recs) |->
                            SteerBytes(recs[i]) \o PayloadOf(i, recs[i]) ])
    IN  CASE tail = "whole" -> whole
          [] tail = "cut"   -> SubSeq(whole, 1, Len(whole) - 2)
          [] tail = "junk"  -> whole \o << 1, 2, 3, 4, 5, 6, 7, 8 >>

SeqsUpTo(S, n) == UNION { [ 1..k -> S ] : k \in 0..n }

NoEvent == [ kind |-> "none" ]

\* f has been decoded at most once so far.
NoDecode == [ over |-> FALSE ]

\* The generators iter_logical_records and iter_banks before they exist.
IdleLogical ==
    /\ buf = <<>> /\ lstate = "idle" /\ lout = <<>> /\ lpos = 0 /\ npulled = 0
    /\ ev = NoEvent

IdleBanks ==
    /\ record = <<>> /\ bpos = 0 /\ bstate = "idle" /\ bout = <<>>

\* zebraio(f) just created: skip = False, nothing read.
NewZebraio ==
    /\ zpos = 0 /\ zskip = FALSE /\ zstate = "created" /\ zout = <<>> /\ zreq = <<>>

InitFramer ==
    /\ \E recs \in SeqsUpTo(PhysKinds, MaxRecs), tail \in Tails :
          /\ input = [ kind |-> "framer", recs |-> recs, tail |-> tail ]
          /\ f = FramerFile(recs, tail)
    /\ NewZebraio
    /\ IdleLogical
    /\ IdleBanks
    /\ err = "none"
    /\ first = NoDecode

(***************************************************************************)
(* A caller that drives zebraio directly: next(zebra) is sent = FALSE,     *)
(* zebra.send(True) is sent = TRUE (a just-created generator accepts only  *)
(* next()).                                                                *)
(***************************************************************************)
Resumable(sent) ==
    /\ input.kind = "framer"
    /\ zstate \in { "created", "suspended" }
    /\ sent => zstate = "suspended"

SkipOnResume(sent) == IF zstate = "created" THEN zskip ELSE Sent(zskip, sent)

ZYield ==
    \E sent \in BOOLEAN :
      /\ Resumable(sent)
      /\ LET r == zebraio(f, zpos, SkipOnResume(sent)) IN
           /\ r.status = "yield"
           /\ zpos' = r.pos
           /\ zskip' = SkipOnResume(sent)
           /\ zstate' = "suspended"
           /\ zout' = Append(zout, r.chunk)
           /\ zreq' = Append(zreq, sent)
      /\ UNCHANGED <<input, f, first, lvars, bvars, err>>

ZStop ==
    \E sent \in BOOLEAN :
      /\ Resumable(sent)
      /\ LET r == zebraio(f, zpos, SkipOnResume(sent)) IN
           /\ r.status = "stop"
           /\ zpos' = r.pos
           /\ zskip' = SkipOnResume(sent)
           /\ zstate' = "done"
           /\ zreq' = Append(zreq, sent)
      /\ UNCHANGED <<input, f, first, zout, lvars, bvars, err>>

ZFail ==
    \E sent \in BOOLEAN :
      /\ Resumable(sent)
      /\ LET r == zebraio(f, zpos, SkipOnResume(sent)) IN
           /\ r.status = "error"
           /\ zpos' = r.pos
           /\ zskip' = SkipOnResume(sent)
           /\ zstate' = "failed"
           /\ err' = r.err
           /\ zreq' = Append(zreq, sent)
      /\ UNCHANGED <<input, f, first, zout, lvars, bvars>>

NextFramer == ZYield \/ ZStop \/ ZFail

SpecFramer == InitFramer /\ [][NextFramer]_vars


(***************************************************************************)
(* iter_logical_records: one iteration of its `while True` loop, up to the *)
(* `continue`, the yield (with the buffer advance that follows it), the    *)
(* `break` or the exception that ends it.                                  *)
(***************************************************************************)
\* next(zebra): a generator that has ended or failed raises StopIteration;
\* next() sends None, so `skip` is false.
NextZebra(file, pos, zst) ==
    IF zst \in { "done", "failed" }
    THEN [ status |-> "stop", pos |-> pos, chunk |-> <<>>, err |-> "none" ]
    ELSE zebraio(file, pos, Sent(FALSE, FALSE))

ZStateAfter(status) ==
    CASE status = "yield" -> "suspended"
      [] status = "stop"  -> "done"
      [] status = "error" -> "failed"

\* if len(buf) < 2: the refill test at the head of the loop
NeedsRefill(b) == Len(b) < 2

\* buf[:4] == '\x00'*4 ; buf = buf[4:]
IsZeroWord(b) == PySlice(b, 0, 4) = << 0, 0, 0, 0 >>
DropZeroWordTwice(b) == PySliceFrom(b, 8)
DropZeroWord(b) == PySliceFrom(b, 4)

\* while len(buf) < cw.size*4 + 10
ExtendToControl(cw) == 8
ExtendTo(cw) == cw.size * 4 + 10

NormalTypesAnd7 == { 2, 3, 4, 7 }
NormalTypes  == { 2, 3, 4 }
PaddingTypes == { 5 }
StartOfRunTypes == { 1 }

\* buf = buf[8+(cw.size-1)*4:]
PaddingDiscardFull(cw) == 8 + cw.size * 4
PaddingDiscard(cw) == 8 + (cw.size - 1) * 4

\* buf = buf[8+cw.size*4:]
StartOfRunDiscardBytes(cw) == 8 + cw.size
StartOfRunDiscard(cw) == 8 + cw.size * 4

\* size = (cw.size-10)*4
BodySizeLessControl(cw) == (cw.size - 12) * 4
BodySize(cw) == (cw.size - 10) * 4

\* skip_to = pilot.size_header + pilot.size_seg + pilot.size_rel + pilot.size_text
PilotSkip(pilot) ==
    pilot.size_header + pilot.size_seg + pilot.size_rel + pilot.size_text

\* the extension loop: pull chunks until the buffer holds ExtendTo(cw) bytes
\* or zebraio ends (the `break` leaves this loop only)
RECURSIVE Extend(_, _, _, _, _)

\* the chunk pulled (r) extends the buffer; StopIteration or an exception ends the loop
Extended(file, b, r, need) ==
    IF r.status = "yield"
    THEN Extend(file, b \o r.chunk, r.pos, "suspended", need)
    ELSE [ status |-> r.status, buf |-> b, pos |-> r.pos,
           zst |-> ZStateAfter(r.status), err |-> r.err ]

Extend(file, b, pos, zst, need) ==
    IF Len(b) < need
    THEN Extended(file, b, NextZebra(file, pos, zst), need)
    ELSE [ status |-> "full", buf |-> b, pos |-> pos, zst |-> zst, err |-> "none" ]

NoCw == [ size |-> -1, type |-> -1 ]

\* The outcome of an iteration: what it did (kind), the buffer as the
\* dispatch saw it (seen) and as the iteration left it (buf), the file
\* cursor and zebraio's state, the record yielded, the control word decoded.
Outcome(kind, seen, b, pos, zst, rec, cw, e) ==
    [ kind |-> kind, seen |-> seen, buf |-> b, pos |-> pos, zst |-> zst,
      rec |-> rec, cw |-> cw, err |-> e ]

\* lines 101-139: the dispatch on cw.type, on the extended buffer b
Dispatch(cw, b, pos, zst) ==
    IF cw.type \in NormalTypes
    THEN IF Len(PySlice(b, 8, 48)) < PilotBytes
         THEN Outcome("error", b, b, pos, zst, <<>>, cw,
                      "ValueError: Buffer size too small")
         ELSE LET pilot == Pilot(PySlice(b, 8, 48))
                  size  == BodySize(cw)
                  rec   == PySlice(b, 48, 48 + size)
              IN  IF size # Len(rec)
                  THEN Outcome("error", b, b, pos, zst, <<>>, cw, "AssertionError")
                  ELSE Outcome("emit", b, PySliceFrom(b, 48 + size), pos, zst,
                               PySliceFrom(rec, PilotSkip(pilot) * 4), cw, "none")
    ELSE IF cw.type \in PaddingTypes
    THEN IF cw.size >= 1
         THEN Outcome("padding", b, PySliceFrom(b, PaddingDiscard(cw)), pos, zst,
                      <<>>, cw, "none")
         ELSE Outcome("error", b, b, pos, zst, <<>>, cw, "IOError: padding record")
    ELSE IF cw.type \in StartOfRunTypes
    THEN Outcome("start-of-run", b, PySliceFrom(b, StartOfRunDiscard(cw)), pos, zst,
                 <<>>, cw, "none")
    ELSE Outcome("error", b, b, pos, zst, <<>>, cw, "ValueError: Unknown record type")

\* lines 83-99: the one-word padding test, the control word, the extension
AfterRefill(file, b, pos, zst) ==
    IF IsZeroWord(b)
    THEN Outcome("zero", b, DropZeroWord(b), pos, zst, <<>>, NoCw, "none")
    ELSE IF Len(PySlice(b, 0, 8)) < ControlBytes
    THEN Outcome("error", b, b, pos, zst, <<>>, NoCw,
                 "ValueError: Buffer size too small")
    ELSE LET cw == Control(PySlice(b, 0, 8))
             x  == Extend(file, b, pos, zst, ExtendTo(cw))
         IN  IF x.status = "error"
             THEN Outcome("error", x.buf, x.buf, x.pos, x.zst, <<>>, cw, x.err)
             ELSE Dispatch(cw, x.buf, x.pos, x.zst)

\* lines 74-81, then the rest of the iteration
iter_logical_records(file, b, pos, zst) ==
    IF NeedsRefill(b)
    THEN LET r == NextZebra(file, pos, zst) IN
         CASE r.status = "stop" ->
                Outcome("end", b, b, r.pos, "done", <<>>, NoCw, "none")
           [] r.status = "error" ->
                Outcome("error", b, b, r.pos, "failed", <<>>, NoCw, r.err)
           [] r.status = "yield" ->
                AfterRefill(file, b \o r.chunk, r.pos, "suspended")
    ELSE AfterRefill(file, b, pos, zst)

(***************************************************************************)
(* iter_banks: one iteration of its `while` loop, up to the yield, the end *)
(* of the loop or the exception.                                           *)
(***************************************************************************)
\* bytes.seek(off, 1): io.BytesIO moves the cursor by off and clamps it at 0;
\* a cursor past the end is allowed (reads there return nothing).
SeekCur(pos, off) == Max(pos + off, 0)

\* bytes.seek((ioc.size-12)*4, 1)
BankGapNoBase(ioc) == ioc.size * 4
BankGap(ioc) == (ioc.size - 12) * 4

iter_banks(rec, pos) ==
    IF ~(pos < Len(rec))
    THEN [ kind |-> "end", pos |-> pos, bank |-> <<>>, data |-> <<>>, err |-> "none" ]
    ELSE LET iob == FRead(rec, pos, IOControlBytes) IN
         IF Len(iob) < IOControlBytes
         THEN [ kind |-> "error", pos |-> pos + Len(iob), bank |-> <<>>,
                data |-> <<>>, err |-> "ValueError: Buffer size too small" ]
         ELSE LET ioc == IOControl(iob)
                  at  == SeekCur(pos + IOControlBytes, BankGap(ioc))
                  hb  == FRead(rec, at, BankBytes)
              IN  IF Len(hb) < BankBytes
                  THEN [ kind |-> "error", pos |-> Max(at, at + Len(hb)),
                         bank |-> <<>>, data |-> <<>>,
                         err |-> "ValueError: Buffer size too small" ]
                  ELSE LET bank == Bank(hb)
                           data == FRead(rec, at + BankBytes, bank.data * 4)
                           after == at + BankBytes + Len(data)
                       IN  IF Len(data) # bank.data * 4
                           THEN [ kind |-> "error", pos |-> after, bank |-> bank,
                                  data |-> data, err |-> "AssertionError" ]
                           ELSE [ kind |-> "emit", pos |-> after, bank |-> bank,
                                  data |-> data, err |-> "none" ]

(***************************************************************************)
(* Logical records and banks as they are written to a file.                *)
(***************************************************************************)
\* The j-th filler word of item or bank i (never a zero word).
Filler(i, j) == << 1, i, j, 7 >>

Fillers(i, n) == [ k \in 1..(4 * n) |-> Filler(i, (k + 3) \div 4)[((k - 1) % 4) + 1] ]

\* The 40 bytes of a pilot: check (never read), version, process, reserve,
\* size_text, size_seg, size_rel, size_bank, entry_link, size_header.
PilotWords(d) ==
    << 1, 2, 3, 4 >> \o Enc32(1) \o Enc32(0) \o Enc32(0)
        \o Enc32(d.text) \o Enc32(d.seg) \o Enc32(d.rel) \o Enc32(9)
        \o Enc32(0) \o Enc32(d.header)

\* A bank: IOControl (char = 3), the gap, the Bank header, the data words.
BankData(d) ==
    [ k \in 1..(4 * d.present) |-> << 2, d.name[1], 0, (k + 3) \div 4 >>[((k - 1) % 4) + 1] ]

BankItem(i, d) ==
    << 0, 3, d.iosize \div 256, d.iosize % 256 >> \o Fillers(i, d.gap)
        \o Enc32(0) \o Enc32(0) \o Enc32(0) \o Enc32(5) \o d.name
        \o Enc32(1) \o Enc32(1) \o Enc32(d.data) \o Enc32(0)
        \o BankData(d)

BankChain(banks) == Concat([ i \in 1..Len(banks) |-> BankItem(i, banks[i]) ])

\* A logical item: a zero word, or a control word followed by `words` - 2
\* words: for a normal type the pilot and then the banks (when it has any)
\* or filler; for the other types filler.  `words` short of the record's
\* length is a record cut by the end of the data.
ItemBody(i, d) ==
    IF d.type \in { 2, 3, 4 }
    THEN PilotWords(d) \o (IF d.banks = <<>> THEN Fillers(i, d.size) ELSE BankChain(d.banks))
    ELSE Fillers(i, d.size + 2)

Item(i, d) ==
    IF d.k = "zero" THEN << 0, 0, 0, 0 >>
    ELSE SubSeq(Enc32(d.size) \o Enc32(d.type) \o ItemBody(i, d), 1, d.words * 4)

LogicalBytes(items) == Concat([ i \in 1..Len(items) |-> Item(i, items[i]) ])

Rec(size, type, words, header, seg, rel, text, banks) ==
    [ k |-> "rec", size |-> size, type |-> type, words |-> words,
      header |-> header, seg |-> seg, rel |-> rel, text |-> text, banks |-> banks ]

ZeroItem == [ k |-> "zero", size |-> 0, type |-> 0, words |-> 1,
              header |-> 0, seg |-> 0, rel |-> 0, text |-> 0, banks |-> <<>> ]

LogicalKinds ==
    { ZeroItem,
      Rec(1, 5, 2, 0, 0, 0, 0, <<>>),       \* padding record, 8 bytes
      Rec(3, 5, 4, 0, 0, 0, 0, <<>>),       \* padding record, 16 bytes
      Rec(0, 5, 2, 0, 0, 0, 0, <<>>),       \* padding record of size 0
      Rec(3, 6, 4, 0, 0, 0, 0, <<>>),       \* type 6, 16 bytes
      Rec(0, 6, 2, 0, 0, 0, 0, <<>>),       \* type 6 of size 0
      Rec(2, 1, 4, 0, 0, 0, 0, <<>>),       \* start-of-run record
      Rec(11, 2, 13, 0, 0, 0, 0, <<>>),     \* normal, one body word
      Rec(12, 3, 14, 0, 1, 0, 0, <<>>),     \* normal, two body words, skip_to 1
      Rec(10, 4, 12, 0, 0, 0, 0, <<>>),     \* normal, empty body
      Rec(11, 2, 13, 1, 0, 0, 1, <<>>),     \* normal, skip_to past the body
      Rec(2, 7, 4, 0, 0, 0, 0, <<>>),       \* unknown type
      Rec(11, 2, 1, 0, 0, 0, 0, <<>>),      \* half a control word
      Rec(11, 2, 12, 0, 0, 0, 0, <<>>),     \* normal, last body word missing
      Rec(5, 5, 3, 0, 0, 0, 0, <<>>) }      \* padding record of 24 bytes, 12 there

\* Where the data may be split in two physical records: at an item's first
\* word, one word into it, or three words into it (word offsets).
RECURSIVE ItemStarts(_, _, _)
ItemStarts(items, i, at) ==
    IF i > Len(items) THEN {}
    ELSE { at } \cup ItemStarts(items, i + 1, at + Len(Item(i, items[i])) \div 4)

SplitPoints(items) ==
    LET W == Len(LogicalBytes(items)) \div 4 IN
    { 0 } \cup ({ o + d : o \in ItemStarts(items, 1, 0), d \in { 0, 1, 3 } }
                    \cap 1..(W - 1))

Chunks(bytes, split) ==
    IF bytes = <<>> THEN <<>>
    ELSE IF split = 0 THEN << bytes >>
    ELSE << SubSeq(bytes, 1, split * 4), SubSeq(bytes, split * 4 + 1, Len(bytes)) >>

\* Each chunk as a physical record of its own (fast_blocks = 0, skip = 8).
ChunkRecord(c) ==
    SteerBytes([ size |-> Len(c) \div 4 + 8, fast_blocks |-> 0, flags |-> 0,
                 skip |-> 8 ]) \o c

\* The file that holds the data bytes in one physical record (split = 0) or
\* in two, the first of `split` words.
FileOf(bytes, split) ==
    LET cs == Chunks(bytes, split) IN
    Concat([ i \in 1..Len(cs) |-> ChunkRecord(cs[i]) ])

LogicalFile(items, split) == FileOf(LogicalBytes(items), split)

(***************************************************************************)
(* A caller that iterates iter_logical_records(f) (input.kind "logical"),  *)
(* and parse(f), which runs iter_banks on every logical record             *)
(* (input.kind "parse").  One action per way an iteration can go.          *)
(***************************************************************************)
InitLogical ==
    /\ \E items \in SeqsUpTo(LogicalKinds, MaxItems) :
         \E split \in SplitPoints(items) :
            /\ input = [ kind |-> "logical", items |-> items, split |-> split ]
            /\ f = LogicalFile(items, split)
    /\ NewZebraio
    /\ buf = <<>> /\ lstate = "running" /\ lout = <<>> /\ lpos = 0 /\ npulled = 0
    /\ ev = NoEvent
    /\ IdleBanks
    /\ err = "none"
    /\ first = NoDecode

\* The generator can be resumed: it has not ended, and parse is not in the
\* middle of a record's banks.
LRunning == lstate = "running" /\ bstate \notin { "running", "failed" }

LOutcome == iter_logical_records(f, buf, zpos, zstate)

\* What every iteration does to the generators' state; ev records it.
LStep(r) ==
    /\ buf' = r.buf
    /\ zpos' = r.pos
    /\ zstate' = r.zst
    /\ npulled' = npulled + (Len(r.seen) - Len(buf))
    /\ lpos' = lpos + (Len(r.seen) - Len(r.buf))
    /\ ev' = [ kind |-> r.kind, cw |-> r.cw, start |-> lpos,
               avail |-> Len(r.seen), drop |-> Len(r.seen) - Len(r.buf),
               nout |-> Len(lout) ]
    /\ UNCHANGED <<input, f, first, zskip, zout, zreq>>

LREnd ==
    /\ LRunning
    /\ LET r == LOutcome IN
         /\ r.kind = "end"
         /\ LStep(r)
         /\ lstate' = "done"
    /\ UNCHANGED <<lout, bvars, err>>

LRDropZero ==
    /\ LRunning
    /\ LET r == LOutcome IN
         /\ r.kind = "zero"
         /\ LStep(r)
    /\ UNCHANGED <<lstate, lout, bvars, err>>

LRPadding ==
    /\ LRunning
    /\ LET r == LOutcome IN
         /\ r.kind = "padding"
         /\ LStep(r)
    /\ UNCHANGED <<lstate, lout, bvars, err>>

LRStartOfRun ==
    /\ LRunning
    /\ LET r == LOutcome IN
         /\ r.kind = "start-of-run"
         /\ LStep(r)
    /\ UNCHANGED <<lstate, lout, bvars, err>>

LREmit ==
    /\ LRunning
    /\ LET r == LOutcome IN
         /\ r.kind = "emit"
         /\ LStep(r)
         /\ lout' = Append(lout, r.rec)
         /\ IF input.kind = "parse"
            THEN record' = r.rec /\ bpos' = 0 /\ bstate' = "running"
            ELSE UNCHANGED <<record, bpos, bstate>>
    /\ UNCHANGED <<lstate, bout, err>>

LRFail ==
    /\ LRunning
    /\ LET r == LOutcome IN
         /\ r.kind = "error"
         /\ LStep(r)
         /\ lstate' = "failed"
         /\ err' = r.err
    /\ UNCHANGED <<lout, bvars>>

NextLogical == LREnd \/ LRDropZero \/ LRPadding \/ LRStartOfRun \/ LREmit \/ LRFail

SpecLogical == InitLogical /\ [][NextLogical]_vars

BankYield ==
    /\ bstate = "running"
    /\ Len(bout) < MaxOut
    /\ LET r == iter_banks(record, bpos) IN
         /\ r.kind = "emit"
         /\ bpos' = r.pos
         /\ bout' = Append(bout, [ bank |-> r.bank, data |-> r.data ])
    /\ UNCHANGED <<input, f, first, zpos, zskip, zstate, zout, zreq, lvars, record, bstate, err>>

BankEnd ==
    /\ bstate = "running"
    /\ LET r == iter_banks(record, bpos) IN
         /\ r.kind = "end"
         /\ bpos' = r.pos
         /\ bstate' = "done"
    /\ UNCHANGED <<input, f, first, zpos, zskip, zstate, zout, zreq, lvars, record, bout, err>>

BankFail ==
    /\ bstate = "running"
    /\ LET r == iter_banks(record, bpos) IN
         /\ r.kind = "error"
         /\ bpos' = r.pos
         /\ bstate' = "failed"
         /\ err' = r.err
    /\ UNCHANGED <<input, f, first, zpos, zskip, zstate, zout, zreq, lvars, record, bout>>

NextBanks == BankYield \/ BankEnd \/ BankFail

(***************************************************************************)
(* iter_banks(record) on a record built from bank descriptors.             *)
(***************************************************************************)
Bk(iosize, gap, data, present, name) ==
    [ iosize |-> iosize, gap |-> gap, data |-> data, present |-> present,
      name |-> name ]

ABCD == << 65, 66, 67, 68 >>
EFGH == << 69, 70, 71, 72 >>

BankKinds ==
    { Bk(12, 0, 1, 1, ABCD),      \* no gap, one data word
      Bk(13, 1, 0, 0, EFGH),      \* a one-word gap, no data
      Bk(14, 2, 2, 2, ABCD),      \* a two-word gap, two data words
      Bk(11, 0, 1, 1, EFGH),      \* IOControl.size below 12: a negative skip
      Bk(40, 0, 0, 0, ABCD),      \* a skip past the end of the record
      Bk(12, 0, 3, 1, EFGH) }     \* data announces 3 words, 1 is there

\* What may follow the banks in the record: nothing, or one word.
BankTails == { <<>>, << 1, 2, 3, 4 >> }

InitBanks ==
    /\ \E banks \in SeqsUpTo(BankKinds, MaxBanks), tail \in BankTails :
          /\ input = [ kind |-> "banks", banks |-> banks, tail |-> tail ]
          /\ record = BankChain(banks) \o tail
    /\ f = <<>>
    /\ NewZebraio
    /\ IdleLogical
    /\ bpos = 0 /\ bstate = "running" /\ bout = <<>>
    /\ err = "none"
    /\ first = NoDecode

SpecBanks == InitBanks /\ [][NextBanks]_vars

(***************************************************************************)
(* parse(f): iter_banks over iter_logical_records over zebraio.            *)
(***************************************************************************)
\* A normal record of type 2 holding the banks, its pilot's skip fields zero.
BankRecord(banks) ==
    Rec(10 + Len(BankChain(banks)) \div 4, 2, 12 + Len(BankChain(banks)) \div 4,
        0, 0, 0, 0, banks)

ParseKinds ==
    { ZeroItem,
      Rec(3, 5, 4, 0, 0, 0, 0, <<>>),
      Rec(2, 1, 4, 0, 0, 0, 0, <<>>),
      Rec(2, 7, 4, 0, 0, 0, 0, <<>>),
      Rec(10, 4, 12, 0, 0, 0, 0, <<>>),
      BankRecord(<< Bk(12, 0, 1, 1, ABCD) >>),
      BankRecord(<< Bk(13, 1, 0, 0, EFGH), Bk(12, 0, 1, 1, ABCD) >>),
      BankRecord(<< Bk(12, 0, 3, 1, EFGH) >>) }

\* The scenario of the specification's section 8, as it is stated: the
\* steering block announces size = 20 (a 48-byte payload) and the control
\* word size = 12, for a logical record of 8 + 40 + 4 + 36 + 4 = 92 bytes.
\* "stated-92" writes the whole logical record after the steering block,
\* "stated-48" only the 48 bytes the steering block announces.
ScenarioRecord ==
    Enc32(12) \o Enc32(2) \o PilotWords(ZeroItem) \o BankItem(1, Bk(12, 0, 1, 1, ABCD))

ScenarioFile(as) ==
    SteerBytes([ size |-> 20, fast_blocks |-> 0, flags |-> 0, skip |-> 8 ])
        \o (IF as = "stated-92" THEN ScenarioRecord ELSE SubSeq(ScenarioRecord, 1, 48))

InitParse ==
    /\ \/ \E items \in SeqsUpTo(ParseKinds, MaxItems) :
            \E split \in SplitPoints(items) :
               /\ input = [ kind |-> "parse", items |-> items, split |-> split,
                            scenario |-> "none" ]
               /\ f = LogicalFile(items, split)
       \/ \E as \in { "stated-92", "stated-48" } :
               /\ input = [ kind |-> "parse", items |-> <<>>, split |-> 0, scenario |-> as ]
               /\ f = ScenarioFile(as)
    /\ NewZebraio
    /\ buf = <<>> /\ lstate = "running" /\ lout = <<>> /\ lpos = 0 /\ npulled = 0
    /\ ev = NoEvent
    /\ IdleBanks
    /\ err = "none"
    /\ first = NoDecode

\* parse(f) has ended, normally or by an exception.
ParseOver == lstate \in { "done", "failed" } \/ bstate = "failed"

\* What a decode of f gave: the banks, how it ended and where.
Decoded ==
    [ over |-> TRUE, banks |-> bout, records |-> lout, err |-> err,
      lstate |-> lstate, bstate |-> bstate, zpos |-> zpos, lpos |-> lpos,
      bpos |-> bpos ]

\* buf = bytearray(): a new call of iter_logical_records starts on an empty
\* buffer, whatever the buffer of the call before held
KeptBuffer(old) == old
NewBuffer(old) == <<>>

\* The caller calls parse(f) again once the first decode is over, with the
\* cursor of f back at 0: zebraio(f), iter_logical_records(f) and, for every
\* record, iter_banks(lr) are new generators with new locals.
Redecode ==
    /\ input.kind = "parse"
    /\ ParseOver
    /\ first = NoDecode
    /\ first' = Decoded
    /\ zpos' = 0 /\ zskip' = FALSE /\ zstate' = "created"
    /\ zout' = <<>> /\ zreq' = <<>>
    /\ buf' = NewBuffer(buf) /\ lstate' = "running" /\ lout' = <<>>
    /\ lpos' = 0 /\ npulled' = 0 /\ ev' = NoEvent
    /\ record' = <<>> /\ bpos' = 0 /\ bstate' = "idle" /\ bout' = <<>>
    /\ err' = "none"
    /\ UNCHANGED <<input, f>>

Next == NextLogical \/ NextBanks \/ Redecode

Spec == InitParse /\ [][Next]_vars

(***************************************************************************)
(* zebraio driven by a direct caller or by iter_logical_records.           *)
(***************************************************************************)
InitChunks == InitFramer \/ InitLogical

NextChunks == NextFramer \/ NextLogical

SpecChunks == InitChunks /\ [][NextChunks]_vars

(***************************************************************************)
(* Properties of zebraio, checked under SpecFramer.                        *)
(***************************************************************************)
\* The file is N valid steering-block+payload pairs and nothing else.
ValidFramerInput ==
    /\ input.kind = "framer"
    /\ input.tail = "whole"
    /\ \A i \in 1..Len(input.recs) :
          (input.recs[i].size * (input.recs[i].fast_blocks + 1) - 8) * 4 > 0

\* No resume so far has carried a resync request.
NoResync == \A i \in 1..Len(zreq) : ~zreq[i]

\* C1: for a file of N valid steering-block+payload pairs, pulled without
\* any resync request, zebraio yields exactly N chunks, the i-th equal to
\* the i-th payload, never fails, and the pull after the N-th chunk ends
\* the sequence normally.
C1_FramingRoundTrip ==
    (ValidFramerInput /\ NoResync) =>
        /\ zstate # "failed"
        /\ Len(zout) <= Len(input.recs)
        /\ \A i \in 1..Len(zout) : zout[i] = PayloadOf(i, input.recs[i])
        /\ (zstate = "done" <=> Len(zreq) = Len(input.recs) + 1)
        /\ (zstate = "done" => Len(zout) = Len(input.recs))

C1_Witness ==
    /\ ValidFramerInput /\ NoResync
    /\ zstate = "done"
    /\ Len(zout) = 3
    /\ Len(zout[1]) > 0
    /\ input.recs[2].fast_blocks = 1
    /\ input.recs[3].flags # 0

\* payload[off:] as Python reads it: from byte offset off, counted from the
\* end when off is negative, empty when off is past the end.
TailFrom(payload, off) ==
    IF off >= 0
    THEN SubSeq(payload, off + 1, Len(payload))
    ELSE SubSeq(payload, Max(Len(payload) + off, 0) + 1, Len(payload))

\* C2: an emission whose resume carried a resync request equals
\* payload[(skip-8)*4:], payload and skip being those of the physical
\* record it was read from.
C2_ResyncOffset ==
    input.kind = "framer" =>
        \A i \in 1..Len(zout) :
            zreq[i] => zout[i] = TailFrom(PayloadOf(i, input.recs[i]),
                                          (input.recs[i].skip - 8) * 4)

C2_Witness ==
    /\ input.kind = "framer"
    /\ Len(zout) >= 2
    /\ zreq[2]
    /\ input.recs[2].skip = 9
    /\ Len(zout[2]) = 4
    /\ zout[2] # PayloadOf(2, input.recs[2])

\* C3: resync lasts one step and is never inferred: the first emission and
\* every emission whose resume carried no resync request is the full
\* payload, also right after a resynced emission.
C3_ResyncOneStep ==
    input.kind = "framer" =>
        \A i \in 1..Len(zout) :
            ~zreq[i] => zout[i] = PayloadOf(i, input.recs[i])

C3_Witness ==
    /\ input.kind = "framer"
    /\ Len(zout) = 3
    /\ zreq[2] /\ ~zreq[3]
    /\ zout[2] # PayloadOf(2, input.recs[2])
    /\ zout[3] = PayloadOf(3, input.recs[3])
    /\ input.recs[3].skip = 9

\* The payload size the i-th steering block of the input announces.
AnnouncedSize(i) ==
    (input.recs[i].size * (input.recs[i].fast_blocks + 1) - 8) * 4

\* C13 (as claimed): a steering block whose payload size
\* (size*(fast_blocks+1)-8)*4 is zero or negative makes zebraio fail; no
\* chunk, not even an empty one, is yielded for that physical record.
C13_NoChunkForEmptyRecord ==
    input.kind = "framer" =>
        \A i \in 1..Len(zout) : AnnouncedSize(i) > 0

\* C14 (as claimed): a resumption that carries a resync request, on a
\* record whose offset (skip-8)*4 exceeds the length of its payload, makes
\* zebraio fail; no chunk is yielded for that record.
C14_NoChunkPastPayload ==
    input.kind = "framer" =>
        \A i \in 1..Len(zout) :
            zreq[i] => (input.recs[i].skip - 8) * 4 <= Len(PayloadOf(i, input.recs[i]))


(***************************************************************************)
(* Properties of iter_logical_records, checked under SpecLogical.          *)
(***************************************************************************)
\* iter_logical_records(file) run to its end: the records it yields and
\* how it ends.
RECURSIVE LRun(_, _, _, _, _)

LRunFrom(file, r, out) ==
    IF r.kind = "end" THEN [ status |-> "done", out |-> out, err |-> "none" ]
    ELSE IF r.kind = "error" THEN [ status |-> "failed", out |-> out, err |-> r.err ]
    ELSE LRun(file, r.buf, r.pos, r.zst,
              IF r.kind = "emit" THEN Append(out, r.rec) ELSE out)

LRun(file, b, pos, zst, out) ==
    LRunFrom(file, iter_logical_records(file, b, pos, zst), out)

LRunAll(file) == LRun(file, <<>>, 0, "created", <<>>)

\* The data of the input.
Data == LogicalBytes(input.items)

\* The input's data is a zero word followed by R, and the run is over.
ZeroPrefixedDone ==
    /\ input.kind = "logical"
    /\ Len(input.items) >= 1
    /\ input.items[1] = ZeroItem
    /\ lstate \in { "done", "failed" }

\* R alone, split where the input is split (one word earlier).
WithoutZeroWord ==
    FileOf(SubSeq(Data, 5, Len(Data)),
           IF input.split <= 1 THEN 0 ELSE input.split - 1)

\* C4: when R alone decodes as valid logical records (the run ends without
\* an error), the run on a zero word followed by R ends the same way with
\* the same records in the same order.
C4_PaddingAbsorption ==
    ZeroPrefixedDone =>
        (LRunAll(WithoutZeroWord).status = "done" =>
            /\ lstate = "done"
            /\ lout = LRunAll(WithoutZeroWord).out)

C4_Witness ==
    /\ ZeroPrefixedDone
    /\ Len(input.items) = 2
    /\ input.items[2].type = 3
    /\ lstate = "done"
    /\ Len(lout) = 1
    /\ Len(lout[1]) = 4
    /\ LRunAll(WithoutZeroWord).out = lout

\* The part of the data the buffer must hold: what was pulled less what was
\* taken off the head.
BufferIsRest == buf = SubSeq(Data, lpos + 1, npulled)

\* C6: decoding a control word of type 5 and size s >= 1 whose record is
\* wholly in the data takes exactly 8+(s-1)*4 bytes off the buffer head,
\* yields no record, and leaves the buffer at the byte that follows.
C6_PaddingRecordDiscarded ==
    (/\ input.kind = "logical"
     /\ ev.kind # "none"
     /\ ev.cw.type = 5 /\ ev.cw.size >= 1
     /\ ev.avail >= 8 + (ev.cw.size - 1) * 4) =>
        /\ ev.kind = "padding"
        /\ ev.drop = 8 + (ev.cw.size - 1) * 4
        /\ lpos = ev.start + 8 + (ev.cw.size - 1) * 4
        /\ Len(lout) = ev.nout
        /\ lstate = "running"
        /\ BufferIsRest

C6_Witness ==
    /\ input.kind = "logical"
    /\ ev.kind = "padding"
    /\ ev.cw = [ size |-> 3, type |-> 5 ]
    /\ ev.drop = 16
    /\ Len(buf) >= 8
    /\ Control(SubSeq(buf, 1, 8)) = [ size |-> 11, type |-> 2 ]

UnknownRecordType == "ValueError: Unknown record type"

\* C8: decoding a control word whose type is outside 1..6 fails with the
\* unknown-record-type error; no record is yielded for it, the records
\* yielded before stay as they were, and the generator yields nothing more.
C8_UnknownTypeFails ==
    (/\ input.kind = "logical"
     /\ ev.kind # "none"
     /\ ev.cw # NoCw
     /\ ev.cw.type \notin 1..6) =>
        /\ ev.kind = "error"
        /\ lstate = "failed"
        /\ err = UnknownRecordType
        /\ Len(lout) = ev.nout
        /\ ~ENABLED NextLogical

C8_Witness ==
    /\ input.kind = "logical"
    /\ ev.kind = "error"
    /\ ev.cw = [ size |-> 2, type |-> 7 ]
    /\ err = UnknownRecordType
    /\ Len(lout) = 1

\* C9 (as claimed): a control word of type 6 and size >= 1 whose record is
\* wholly in the data is handled as a padding record: 8+(size-1)*4 bytes
\* are discarded, no record is yielded, no error is raised.
C9_Type6IsPadding ==
    (/\ input.kind = "logical"
     /\ ev.kind # "none"
     /\ ev.cw.type = 6 /\ ev.cw.size >= 1
     /\ ev.avail >= 8 + (ev.cw.size - 1) * 4) =>
        /\ ev.kind = "padding"
        /\ ev.drop = 8 + (ev.cw.size - 1) * 4
        /\ Len(lout) = ev.nout
        /\ lstate = "running"

\* The byte offset in the data at which the i-th item of the input starts.
StartOf(i) == Len(LogicalBytes(SubSeq(input.items, 1, i - 1)))

EmptyPaddingRecord == "IOError: padding record"

\* C10 (as claimed): the iteration that starts at a padding record (type 5
\* or 6) whose control word declares size 0 fails with the
\* empty-padding-record error.
C10_EmptyPaddingFails ==
    input.kind = "logical" =>
        \A i \in 1..Len(input.items) :
            (/\ input.items[i].k = "rec"
             /\ input.items[i].size = 0
             /\ input.items[i].type \in { 5, 6 }
             /\ ev.kind # "none"
             /\ ev.start = StartOf(i)) =>
                /\ ev.kind = "error"
                /\ err = EmptyPaddingRecord

\* The last iteration decoded a control word.
DecodedControl == ev.kind # "none" /\ ev.cw # NoCw

\* The pilot that follows the control word of the last iteration, and the
\* skip_to and the candidate length (in bytes) of its record.
PilotOfEvent == Pilot(SubSeq(Data, ev.start + 9, ev.start + 48))
SkipOfEvent == PilotSkip(PilotOfEvent) * 4
CandidateOfEvent == (ev.cw.size - 10) * 4

\* C15 (as claimed): for a normal record whose skip_to*4 exceeds the
\* candidate length (ControlWord.size-10)*4, iter_logical_records fails and
\* yields no record, not even an empty one.
C15_PilotSkipPastBodyFails ==
    (/\ input.kind = "logical"
     /\ DecodedControl
     /\ ev.cw.type \in { 2, 3, 4 }
     /\ ev.avail >= 48
     /\ SkipOfEvent > CandidateOfEvent) =>
        /\ ev.kind = "error"
        /\ Len(lout) = ev.nout

\* C17 (as claimed): an iteration that starts where the data still holds 8
\* bytes that do not begin with a zero word decodes its control word from
\* those 8 bytes, pulling further chunks when fewer of them are buffered.
C17_ControlWordFromEightBytes ==
    (/\ input.kind = "logical"
     /\ ev.kind # "none"
     /\ ev.start + 8 <= Len(Data)
     /\ SubSeq(Data, ev.start + 1, ev.start + 4) # << 0, 0, 0, 0 >>) =>
        ev.cw = Control(SubSeq(Data, ev.start + 1, ev.start + 8))

\* C18 (as claimed): when the physical sequence is exhausted and the
\* iteration lacks bytes (fewer than 8 for the control word, or fewer than
\* ControlWord.size*4+8 for the record), no error is raised and no record is
\* yielded for the incomplete data.
C18_ExhaustionEndsNormally ==
    (/\ input.kind = "logical"
     /\ ev.kind # "none"
     /\ zpos = Len(f)
     /\ \/ ev.avail < 8
        \/ ev.cw # NoCw /\ ev.avail < ev.cw.size * 4 + 8) =>
        /\ ev.kind # "error"
        /\ lstate # "failed"
        /\ Len(lout) = ev.nout

\* C19: for a normal record (type 2, 3 or 4, size >= 10, skip_to*4 within
\* the candidate) that is wholly in the data, the iteration yields exactly
\* the bytes [48+skip_to*4, 48+(size-10)*4) counted from the control word,
\* takes exactly 48+(size-10)*4 bytes off the buffer, and leaves the buffer
\* at the first byte after the record, wherever the chunks are split.
C19_NormalRecordEmitted ==
    (/\ input.kind = "logical"
     /\ DecodedControl
     /\ ev.cw.type \in { 2, 3, 4 }
     /\ ev.cw.size >= 10
     /\ ev.start + 48 + CandidateOfEvent <= Len(Data)
     /\ SkipOfEvent <= CandidateOfEvent) =>
        /\ ev.kind = "emit"
        /\ lstate = "running"
        /\ Len(lout) = ev.nout + 1
        /\ lout[Len(lout)] = SubSeq(Data, ev.start + 48 + SkipOfEvent + 1,
                                          ev.start + 48 + CandidateOfEvent)
        /\ ev.drop = 48 + CandidateOfEvent
        /\ lpos = ev.start + 48 + CandidateOfEvent
        /\ BufferIsRest

\* The record ends exactly at the boundary of the two chunks: the extension
\* pulls the second chunk, the record is yielded, the second item is left.
C19_Witness ==
    /\ input.kind = "logical"
    /\ Len(input.items) = 2
    /\ input.split = 14
    /\ ev.kind = "emit"
    /\ ev.start = 0
    /\ ev.cw = [ size |-> 12, type |-> 3 ]
    /\ lout = << SubSeq(Data, 53, 56) >>
    /\ lpos = 56
    /\ Len(buf) > 0
    /\ buf = SubSeq(Data, 57, Len(Data))

(***************************************************************************)
(* Properties of iter_banks, checked under SpecBanks.                      *)
(***************************************************************************)
\* The record is M banks laid out as IOControl, (IOControl.size-12)*4
\* skipped bytes, Bank header, Bank.data*4 data bytes, and nothing else.
ValidBanksInput ==
    /\ input.kind = "banks"
    /\ input.tail = <<>>
    /\ \A i \in 1..Len(input.banks) :
          /\ input.banks[i].iosize >= 12
          /\ input.banks[i].gap = input.banks[i].iosize - 12
          /\ input.banks[i].present = input.banks[i].data

\* 4 + (IOControl.size-12)*4 + 36 + data*4, for each bank of the input
BankLengths ==
    [ i \in 1..Len(input.banks) |->
        4 + (input.banks[i].iosize - 12) * 4 + 36 + input.banks[i].data * 4 ]

\* C5: on a record of M such banks iter_banks yields exactly M pairs in
\* order, each with its bank's header and data*4 data bytes; the cursor
\* after each pair is the sum of the lengths of the banks read, the sum over
\* all banks is the length of the record, and there the sequence ends.
C5_BankChainExhaustion ==
    ValidBanksInput =>
        /\ bstate # "failed"
        /\ Len(bout) <= Len(input.banks)
        /\ \A i \in 1..Len(bout) :
              /\ bout[i].data = BankData(input.banks[i])
              /\ Len(bout[i].data) = input.banks[i].data * 4
              /\ bout[i].bank.data = input.banks[i].data
              /\ bout[i].bank.name = input.banks[i].name
        /\ bpos = SumTo(BankLengths, Len(bout))
        /\ SumSeq(BankLengths) = Len(record)
        /\ (bstate = "done" => Len(bout) = Len(input.banks) /\ bpos = Len(record))

C5_Witness ==
    /\ ValidBanksInput
    /\ bstate = "done"
    /\ Len(bout) = 2
    /\ input.banks[1].iosize = 14
    /\ input.banks[2].iosize = 13
    /\ Len(bout[1].data) = 8
    /\ bout[2].bank.name = EFGH

\* C11 (as claimed): the cursor is strictly greater after each bank yielded
\* than it was before that bank was read, so the payload is never re-read
\* and the sequence is finite.
C11_CursorAdvances ==
    [][(input.kind = "banks" /\ bout' # bout) => bpos' > bpos]_vars

\* The IOControl the iteration at the cursor decodes, when its 4 bytes are there.
IOControlAtCursor == IOControl(FRead(record, bpos, IOControlBytes))

\* The iteration at the cursor decodes an IOControl whose skip is negative
\* or leads past the end of the record.
SkipOutOfRecord ==
    /\ bstate = "running"
    /\ bpos + IOControlBytes <= Len(record)
    /\ \/ BankGap(IOControlAtCursor) < 0
       \/ bpos + IOControlBytes + BankGap(IOControlAtCursor) > Len(record)

\* C12 (as claimed): an IOControl whose skip (IOControl.size-12)*4 is
\* negative or leads past the end of the record makes iter_banks fail at
\* that bank, with no pair yielded for it.
C12_BadSkipFails ==
    [][(input.kind = "banks" /\ SkipOutOfRecord) =>
            (bstate' = "failed" /\ bout' = bout)]_vars

(***************************************************************************)
(* Properties of parse, checked under Spec.                                *)
(***************************************************************************)
\* C7 (as claimed): the scenario's file, a physical record with size = 20
\* holding a logical record with ControlWord{size=12,type=2}, decodes to
\* exactly one (Bank, payload) pair, bank ABCD with 4 data bytes, without
\* error.
C7_ScenarioAsStated ==
    (input.kind = "parse" /\ input.scenario # "none" /\ ParseOver) =>
        /\ err = "none"
        /\ Len(bout) = 1
        /\ bout[1].bank.name = ABCD
        /\ Len(bout[1].data) = 4

\* The scenario with the sizes its contents need: the logical record is
\* 8 + 40 + 4 + 36 + 4 = 92 bytes, so the steering block has size = 31
\* ((31-8)*4 = 92) and the control word size = 21 ((21-10)*4 = 44).
ScenarioFittedFile ==
    SteerBytes([ size |-> 31, fast_blocks |-> 0, flags |-> 0, skip |-> 8 ])
        \o Enc32(21) \o Enc32(2) \o PilotWords(ZeroItem)
        \o BankItem(1, Bk(12, 0, 1, 1, ABCD))

\* C7 (amended): that file decodes to exactly one (Bank, payload) pair,
\* bank ABCD with data = 1 and 4 data bytes, without error.
C7_ScenarioFitted ==
    (input.kind = "parse" /\ f = ScenarioFittedFile) =>
        /\ err = "none"
        /\ lstate # "failed" /\ bstate # "failed"
        /\ Len(bout) <= 1
        /\ (ParseOver =>
              /\ lstate = "done"
              /\ Len(lout) = 1
              /\ Len(bout) = 1
              /\ bout[1].bank.name = ABCD
              /\ bout[1].bank.data = 1
              /\ Len(bout[1].data) = 4)

C7_Witness ==
    /\ input.kind = "parse"
    /\ f = ScenarioFittedFile
    /\ Len(f) = 32 + 92
    /\ ParseOver
    /\ Len(bout) = 1
    /\ bout[1].bank.name = ABCD

C20_WordAligned ==
    /\ \A i \in 1..Len(zout) : Len(zout[i]) % 4 = 0
    /\ npulled % 4 = 0
    /\ Len(buf) % 4 = 0
    /\ lpos % 4 = 0
    /\ (NeedsRefill(buf) => buf = <<>>)

\* A zero word in a chunk of its own is dropped, then a start-of-run record
\* pulled in a second chunk is discarded: the buffer is empty again.
C20_Witness ==
    /\ input.kind = "logical"
    /\ input.split = 1
    /\ input.items[1] = ZeroItem
    /\ ev.kind = "start-of-run"
    /\ ev.start = 4
    /\ ev.drop = 16
    /\ npulled = 20
    /\ NeedsRefill(buf)

=============================================================================
